---- MODULE Spec2Model ----
(***************************************************************************)
(* A model of the ENA wizard tool: the metadata editor's normaliser and    *)
(* validators (src/App/modules/create_validate_metadata.py), the submit    *)
(* page's and the command line's table validators and their submission     *)
(* orchestrators (src/App/modules/submit.py, src/nfdi-ena-cli.py).         *)
(*                                                                         *)
(* Cell values are strings.  pandas' missing values, timestamps and        *)
(* booleans are tokens that start with "#", so that a cell holding the     *)
(* text "nan" differs from a missing cell.  A DataFrame is a record        *)
(* [columns, rows]; a row is a function from the column names to values,   *)
(* and the index of a row is its position minus one (every frame the code  *)
(* stores was built with ignore_index=True).                               *)
(***************************************************************************)
EXTENDS Integers, Sequences, FiniteSets, TLC

----------------------------------------------------------------------------
(* Values and the conversions the code applies to them                     *)

NaN == "#NaN"
NaT == "#NaT"
PyTrue == "#True"
PyFalse == "#False"
\* the pandas Timestamp of the one calendar date of the model
TS == "#Timestamp(2024-05-01)"
ISO_DATE == "2024-05-01"

\* row_index of a dataset-level issue (None in the code)
NoRow == -1

\* pd.isna
isna(v) == v \in {NaN, NaT}

\* str(v) / Series.astype(str): a missing value becomes the text "nan"
str(v) ==
    CASE v = NaN -> "nan"
      [] v = NaT -> "NaT"
      [] v = PyTrue -> "True"
      [] v = PyFalse -> "False"
      [] v = TS -> "2024-05-01 00:00:00"
      [] OTHER -> v

\* str.strip on the texts of the model
strip(s) ==
    CASE s = " " -> ""
      [] s = " a" -> "a"
      [] OTHER -> s

\* str.lower on the column names of the model
lower(name) ==
    CASE name = "Project Name" -> "project name"
      [] name = "ENA-CHECKLIST" -> "ena-checklist"
      [] OTHER -> name

\* pd.to_datetime(v, errors="coerce")
to_datetime(v) ==
    IF v \in {TS, ISO_DATE} THEN TS ELSE NaT

\* Series.dt.date.astype("string"): the ISO text of a timestamp, <NA> otherwise
dt_date_string(v) ==
    IF v = TS THEN ISO_DATE ELSE NaN

\* v is empty for the blank-row tests: pd.isna(v) or str(v).strip() == ""
is_empty_value(v) == isna(v) \/ strip(str(v)) = ""

----------------------------------------------------------------------------
(* Sequences                                                               *)

RECURSIVE Concat(_)
Concat(ss) == IF ss = <<>> THEN <<>> ELSE Head(ss) \o Concat(Tail(ss))

Range(s) == {s[i] : i \in 1..Len(s)}

----------------------------------------------------------------------------
(* create_validate_metadata.py: constants                                  *)

\* REQUIRED_EXTRA_COLUMNS, projected on the columns of the model
REQUIRED_EXTRA_COLUMNS == <<"project name", "collection date", "ENA-CHECKLIST">>
REQUIRED_FIELDS == [i \in 1..Len(REQUIRED_EXTRA_COLUMNS) |-> lower(REQUIRED_EXTRA_COLUMNS[i])]
UNIQUE_KEY_ALIASES == <<"project name", "project_name">>
DELETE_COL == "_delete"
ENA_CHECKLIST_ALLOWED == {"ERC000011", "ERC000012", "ERC000013", "ERC000047"}

\* load_specs.infer_kind on the column names of the model
infer_kind(field) ==
    IF lower(field) = "collection date" THEN "date" ELSE "text"

STATUS_COL == "_row_status"
ISSUES_COL == "issues"

\* The regular expressions of the model's schemas, as tokens: a pattern that
\* compiles, and one that re.compile rejects.
RX_LETTERS == "[a-z]+"
RX_BROKEN == "[a-z"
\* the pattern of "genome coverage" (submit.py line 87, nfdi-ena-cli.py line
\* 90): a positive decimal number, anchored at both ends
RX_COVERAGE == "^positive decimal$"

\* re.compile(rx): None (here "") when rx is empty or does not compile
re_compile(rx) == IF rx \in {"", RX_BROKEN} THEN "" ELSE rx

\* rx.fullmatch(s) is not None, on the texts of the model
re_fullmatch(rx, s) ==
    CASE rx = RX_LETTERS -> s \in {"a", "b", "nan", "x"}
      [] rx = RX_COVERAGE -> s \in {"10"}
      [] OTHER -> FALSE

\* polars str.contains(pattern): the pattern matches somewhere in s
str_contains(pattern, s) ==
    CASE pattern = RX_LETTERS -> s \in {"a", "b", "nan", "s1", "s2", "s3", "x", " a"}
      [] pattern = RX_COVERAGE -> s \in {"10"}
      [] OTHER -> FALSE

----------------------------------------------------------------------------
(* DataFrames                                                              *)

\* pd.DataFrame: the rows are stored (each as an explicit function), not
\* recomputed on every access
DataFrame(columns, rows) ==
    [columns |-> columns,
     rows |-> [i \in 1..Len(rows) |-> rows[i] @@ <<>>] \o <<>>]

Columns(df) == Range(df.columns)

\* df.drop(columns=names, errors="ignore")
drop_columns(df, names) ==
    LET keep == SelectSeq(df.columns, LAMBDA c : c \notin names)
    IN  DataFrame(keep, [i \in 1..Len(df.rows) |-> [c \in Range(keep) |-> df.rows[i][c]]])

\* the dtype test of ensure_tail_blank: a date column that coerce_date_dtypes
\* has converted holds timestamps and NaT only
is_datetime64_any_dtype(df, c) ==
    /\ infer_kind(c) = "date"
    /\ \A i \in 1..Len(df.rows) : df.rows[i][c] \in {TS, NaT}

\* coerce_date_dtypes(df, date_cols): every date column through pd.to_datetime
coerce_date_dtypes(df) ==
    DataFrame(df.columns,
        [i \in 1..Len(df.rows) |->
            [c \in Columns(df) |->
                IF infer_kind(c) = "date" /\ c \notin {DELETE_COL, ISSUES_COL}
                THEN to_datetime(df.rows[i][c]) ELSE df.rows[i][c]]])

_is_blank_row(series) ==
    \A c \in DOMAIN series :
        isna(series[c]) \/ strip(str(series[c])) = "" \/ series[c] = PyFalse

\* ensure_tail_blank without its first step: a blank row is appended, the
\* blank rows the frame already has stay
ensure_tail_blank_keeping(df) ==
    LET cols == IF DELETE_COL \in Columns(df) THEN df.columns
                ELSE df.columns \o <<DELETE_COL>>
        rows == [i \in 1..Len(df.rows) |->
                    [c \in Range(cols) |->
                        IF c = DELETE_COL
                        THEN (IF DELETE_COL \in Columns(df) /\ df.rows[i][c] = PyTrue
                              THEN PyTrue ELSE PyFalse)
                        ELSE df.rows[i][c]]]
    IN  DataFrame(cols, rows \o <<[c \in Range(cols) |->
                                     IF c = DELETE_COL THEN PyFalse ELSE ""]>>)

ensure_tail_blank(df) ==
    LET keep_rows == SelectSeq(df.rows, LAMBDA row : ~_is_blank_row(row))
        cols == IF DELETE_COL \in Columns(df) THEN df.columns
                ELSE df.columns \o <<DELETE_COL>>
        \* df[DELETE_COL] = False when absent; fillna(False).astype(bool)
        withdel == [i \in 1..Len(keep_rows) |->
                      [c \in Range(cols) |->
                         IF c = DELETE_COL
                         THEN (IF DELETE_COL \in Columns(df) /\ keep_rows[i][c] = PyTrue
                               THEN PyTrue ELSE PyFalse)
                         ELSE keep_rows[i][c]]]
        kept == DataFrame(cols, withdel)
        blank == [c \in Range(cols) |->
                    IF c = DELETE_COL THEN PyFalse
                    ELSE IF is_datetime64_any_dtype(kept, c) THEN NaT
                    ELSE ""]
    IN  DataFrame(cols, withdel \o <<blank>>)

drop_tail_blank_for_export(df) ==
    LET out == drop_columns(df, {DELETE_COL, STATUS_COL, ISSUES_COL})
        n == Len(out.rows)
    IN  IF n = 0 THEN out
        ELSE IF \A c \in Columns(out) : is_empty_value(out.rows[n][c])
             THEN DataFrame(out.columns, SubSeq(out.rows, 1, n - 1))
             ELSE out

to_str_for_regex(value, kind) ==
    IF isna(value) \/ value = "" THEN ""
    ELSE IF kind = "date"
         THEN (IF to_datetime(value) = TS THEN ISO_DATE ELSE str(value))
         ELSE str(value)

----------------------------------------------------------------------------
(* create_validate_metadata.py: validation.  specs is the specification    *)
(* table load_specs returns, a sequence of rows [field, regex, example];   *)
(* an issue is a record [row_index, field, value, valid, message].         *)

Issue(i, f, v, ok, msg) ==
    [row_index |-> i, field |-> f, value |-> v, valid |-> ok, message |-> msg]

\* rx_map[f] of _compiled_regex_map_tuple; rx_compiled.get(field) is None
\* for a column the specification does not know
_compiled_regex_map_tuple(specs, field) ==
    LET hits == SelectSeq(specs, LAMBDA r : r.field = field)
    IN  IF hits = <<>> THEN "" ELSE re_compile(hits[Len(hits)].regex)

\* fields_lower = {c.lower(): c for c in df.columns}: the last column wins
fields_lower(df, f_lower) ==
    LET hits == SelectSeq(df.columns, LAMBDA c : lower(c) = f_lower)
    IN  IF hits = <<>> THEN "" ELSE hits[Len(hits)]

validate_required(df, specs) ==
    Concat([i \in 1..Len(df.rows) |->
        IF \A c \in Columns(df) : is_empty_value(df.rows[i][c]) THEN <<>>
        ELSE Concat([j \in 1..Len(REQUIRED_FIELDS) |->
            LET f_lower == REQUIRED_FIELDS[j]
                f_real == fields_lower(df, f_lower)
            IN  IF f_real = ""
                THEN <<Issue(i - 1, f_lower, "", FALSE,
                             "Required field missing in table schema.")>>
                ELSE IF to_str_for_regex(df.rows[i][f_real], infer_kind(f_real)) = ""
                     THEN <<Issue(i - 1, f_real, "", FALSE,
                                  "Required: must not be empty.")>>
                     ELSE <<>>])])

validate_regex(df, specs) ==
    Concat([i \in 1..Len(df.rows) |->
        [j \in 1..Len(df.columns) |->
            LET field == df.columns[j]
                s == to_str_for_regex(df.rows[i][field], infer_kind(field))
                rx == _compiled_regex_map_tuple(specs, field)
            IN  IF s = ""
                THEN Issue(i - 1, field, s, TRUE, "Empty (ok if not required).")
                ELSE IF rx # ""
                     THEN Issue(i - 1, field, s, re_fullmatch(rx, s),
                                IF re_fullmatch(rx, s) THEN "OK" ELSE "Regex mismatch")
                     ELSE Issue(i - 1, field, s, TRUE, "No regex")]])

\* the first column of the table that is an alias
resolve_unique_key_by_column(df) ==
    LET hits == SelectSeq(df.columns, LAMBDA c : c \in Range(UNIQUE_KEY_ALIASES))
    IN  IF hits = <<>> THEN UNIQUE_KEY_ALIASES[1] ELSE hits[1]

resolve_unique_key(df) ==
    LET hits == SelectSeq(UNIQUE_KEY_ALIASES, LAMBDA k : k \in Columns(df))
    IN  IF hits = <<>> THEN UNIQUE_KEY_ALIASES[1] ELSE hits[1]

\* key_series = df[key_field].astype(str).fillna("").str.strip(): astype(str)
\* runs first, so fillna finds nothing left to fill
key_series(df, key_field) ==
    [i \in 1..Len(df.rows) |-> strip(str(df.rows[i][key_field]))]

validate_unique_key(df, key_field) ==
    IF key_field \notin Columns(df)
    THEN <<Issue(NoRow, key_field, "", FALSE, "Unique key field missing in schema.")>>
    ELSE LET ks == key_series(df, key_field)
             counts(v) == Cardinality({i \in 1..Len(ks) : ks[i] = v})
             dups == {v \in Range(ks) : counts(v) > 1}
         IN  Concat([i \in 1..Len(ks) |->
                 IF ks[i] # "" /\ ks[i] \in dups
                 THEN <<Issue(i - 1, key_field, ks[i], FALSE,
                              "Duplicate: must be unique.")>>
                 ELSE <<>>])

\* The shape validators read a text character by character; s is the
\* sequence of the characters of str(s).
Digit == {"0", "1", "2", "3", "4", "5", "6", "7", "8", "9"}

\* the characters of a cell text of the model; a text that is not listed is
\* one letter
characters(s) ==
    CASE s = "" -> <<>>
      [] s = " " -> <<" ">>
      [] s = "nan" -> <<"n", "a", "n">>
      [] s = "0000446" -> <<"0", "0", "0", "0", "4", "4", "6">>
      [] s = "ENVO:0004466" ->
            <<"E", "N", "V", "O", ":", "0", "0", "0", "4", "4", "6", "6">>
      [] OTHER -> <<s>>

\* str.strip(): white space is taken from the front, then from the end
RECURSIVE strip_characters(_)
strip_characters(s) ==
    LET whitespace == {" ", "\t", "\n"}
    IN  IF s # <<>> /\ Head(s) \in whitespace
        THEN strip_characters(Tail(s))
        ELSE IF s # <<>> /\ s[Len(s)] \in whitespace
        THEN strip_characters(SubSeq(s, 1, Len(s) - 1))
        ELSE s

\* the pattern \d{lo,hi} matches the whole of s
fullmatch_digits(s, lo, hi) ==
    /\ Len(s) >= lo
    /\ Len(s) <= hi
    /\ \A i \in 1..Len(s) : s[i] \in Digit

ENVO_PREFIX == <<"E", "N", "V", "O", ":">>

\* re.match in place of re.fullmatch: what follows the seven digits is not read
validate_envo_like_match(s) ==
    LET t == strip_characters(s)
        match(u) == Len(u) >= 7 /\ fullmatch_digits(SubSeq(u, 1, 7), 7, 7)
    IN  \/ match(t)
        \/ /\ Len(t) >= 5
           /\ SubSeq(t, 1, 5) = ENVO_PREFIX
           /\ match(SubSeq(t, 6, Len(t)))

\* re.fullmatch(r"(ENVO:)?\d{7}", str(s).strip()): the group is taken or
\* skipped, then seven digits end the text
validate_envo_like(s) ==
    LET t == strip_characters(s)
    IN  \/ fullmatch_digits(t, 7, 7)
        \/ /\ Len(t) >= 5
           /\ SubSeq(t, 1, 5) = ENVO_PREFIX
           /\ fullmatch_digits(SubSeq(t, 6, Len(t)), 7, 7)

\* re.fullmatch(r"\d{1,9}", str(s).strip())
validate_taxid_like(s) == fullmatch_digits(strip_characters(s), 1, 9)

\* SEMANTIC_FIELDS, projected on the columns of the model
SEMANTIC_FIELDS == <<"env_medium">>

validate_semantics(df) ==
    Concat([k \in 1..Len(SEMANTIC_FIELDS) |->
        LET field == SEMANTIC_FIELDS[k]
        IN  IF field \notin Columns(df) THEN <<>>
            ELSE Concat([i \in 1..Len(df.rows) |->
                LET v == df.rows[i][field]
                IN  IF isna(v) \/ strip(str(v)) = "" THEN <<>>
                    ELSE IF ~validate_envo_like(characters(str(v)))
                         THEN <<Issue(i - 1, field, v, FALSE,
                                      "Ontology/ID shape mismatch.")>>
                         ELSE <<>>])])

validate_ena_checklist(df) ==
    IF "ENA-CHECKLIST" \notin Columns(df)
    THEN <<Issue(NoRow, "ENA-CHECKLIST", "", FALSE, "ENA-CHECKLIST missing in schema.")>>
    ELSE Concat([i \in 1..Len(df.rows) |->
            LET v == IF isna(df.rows[i]["ENA-CHECKLIST"]) THEN ""
                     ELSE df.rows[i]["ENA-CHECKLIST"]
            IN  IF v = "" THEN <<>>
                ELSE IF v \notin ENA_CHECKLIST_ALLOWED
                     THEN <<Issue(i - 1, "ENA-CHECKLIST", v, FALSE,
                                  "Value not in allowed ENA checklist list.")>>
                     ELSE <<>>])

\* the five reports of one validation run, concatenated (runUI, lines 778-789)
full_report(df, specs) ==
    validate_required(df, specs)
    \o validate_regex(df, specs)
    \o validate_unique_key(df, resolve_unique_key(df))
    \o validate_ena_checklist(df)
    \o validate_semantics(df)

\* the cells build_invalid_mask / runUI (lines 792-798) set to True
build_invalid_mask(df, report) ==
    {<<report[k].row_index, report[k].field>> : k \in
        {k \in 1..Len(report) :
            /\ ~report[k].valid
            /\ report[k].row_index # NoRow
            /\ report[k].field \in Columns(df)
            /\ report[k].row_index \in 0..(Len(df.rows) - 1)}}

\* issues_count = (~full_report["valid"]).sum()
issues_count(report) == Cardinality({k \in 1..Len(report) : ~report[k].valid})

\* order_fields_required_first: the required fields the specification has, in
\* the order of REQUIRED_EXTRA_COLUMNS, then the other fields in file order
order_fields_required_first(specs) ==
    LET spec_fields == [i \in 1..Len(specs) |-> specs[i].field]
        spec_lc(r_lc) == SelectSeq(spec_fields, LAMBDA f : lower(strip(f)) = r_lc)
        req_in_spec == Concat([j \in 1..Len(REQUIRED_EXTRA_COLUMNS) |->
            LET hits == spec_lc(lower(REQUIRED_EXTRA_COLUMNS[j]))
            IN  IF hits = <<>> THEN <<>> ELSE <<hits[Len(hits)]>>])
        req_set_lc == {lower(strip(f)) : f \in Range(req_in_spec)}
        others == SelectSeq(spec_fields, LAMBDA f : lower(strip(f)) \notin req_set_lc)
    IN  req_in_spec \o others

----------------------------------------------------------------------------
(* create_validate_metadata.py: the steps of runUI                         *)

SpecRow(f, rx, ex) == [field |-> f, regex |-> rx, example |-> ex]

\* load_specs: the rows of the schema file, then the required columns the
\* file does not have under any letter case, without regex and example
load_specs(csv) ==
    LET have == {lower(strip(csv[i].field)) : i \in 1..Len(csv)}
        to_add == SelectSeq(REQUIRED_EXTRA_COLUMNS, LAMBDA c : lower(c) \notin have)
    IN  csv \o [i \in 1..Len(to_add) |-> SpecRow(to_add[i], "", "")]

\* "metadata_df" not in st.session_state
None == DataFrame(<<>>, <<>>)

\* df[DELETE_COL] = flag
set_delete(df, flag) ==
    LET cols == IF DELETE_COL \in Columns(df) THEN df.columns
                ELSE df.columns \o <<DELETE_COL>>
    IN  DataFrame(cols, [i \in 1..Len(df.rows) |->
            [c \in Range(cols) |-> IF c = DELETE_COL THEN flag ELSE df.rows[i][c]]])

\* df.reindex(columns=cols): a column df does not have is created missing
reindex(df, cols) ==
    DataFrame(cols, [i \in 1..Len(df.rows) |->
        [c \in Range(cols) |-> IF c \in Columns(df) THEN df.rows[i][c] ELSE NaN]])

\* the empty template of "Start new" and of the first run (lines 482-488)
empty_template(fields) ==
    ensure_tail_blank(coerce_date_dtypes(DataFrame(fields \o <<DELETE_COL>>, <<>>)))

\* the upload branch (lines 441-473); file holds the rows of the uploaded
\* table over the fields of the schema
read_upload(fields, file) ==
    ensure_tail_blank(set_delete(coerce_date_dtypes(DataFrame(fields, file)), PyFalse))

\* export_df / pre_export: the snapshot without helper columns and trailing
\* blank row, its date columns as ISO text (lines 774-776)
snapshot(df) ==
    LET out == drop_tail_blank_for_export(df)
    IN  DataFrame(out.columns, [i \in 1..Len(out.rows) |->
            [c \in Columns(out) |->
                IF infer_kind(c) = "date" THEN dt_date_string(to_datetime(out.rows[i][c]))
                ELSE out.rows[i][c]]])

\* the row "Add example row" builds from the examples of the schema
example_row(specs) ==
    [f \in {specs[i].field : i \in 1..Len(specs)} |->
        LET r == CHOOSE r \in Range(specs) : r.field = f
        IN  IF r.example # ""
            THEN (IF infer_kind(f) = "date" THEN to_datetime(str(r.example)) ELSE r.example)
            ELSE (IF infer_kind(f) = "date" THEN NaT ELSE "")]

\* lines 560-580
press_add_example(df, specs) ==
    LET base == drop_tail_blank_for_export(drop_columns(df, {DELETE_COL, ISSUES_COL}))
        merged == DataFrame(base.columns, base.rows \o <<example_row(specs)>>)
    IN  ensure_tail_blank(coerce_date_dtypes(set_delete(merged, PyFalse)))

\* lines 582-585: every row of the snapshot is ticked, the others are not
press_select_all(df) ==
    LET df_no_tail == drop_tail_blank_for_export(df)
    IN  DataFrame(df.columns, [i \in 1..Len(df.rows) |->
            [df.rows[i] EXCEPT ![DELETE_COL] =
                IF i <= Len(df_no_tail.rows) THEN PyTrue ELSE PyFalse]])

\* lines 587-588
press_clear_sel(df) == set_delete(df, PyFalse)

\* lines 590-602: the object columns are stringified and stripped, and the
\* text "nan" is replaced by ""
press_auto_fix(df) ==
    LET fixed == DataFrame(df.columns, [i \in 1..Len(df.rows) |->
            [c \in Columns(df) |->
                IF c \in {DELETE_COL, STATUS_COL, ISSUES_COL} \/ is_datetime64_any_dtype(df, c)
                THEN df.rows[i][c]
                ELSE LET t == strip(str(df.rows[i][c]))
                     IN  IF t = "nan" THEN "" ELSE t]])
    IN  ensure_tail_blank(coerce_date_dtypes(fixed))

\* lines 650-657: the rows with an invalid cell, and the last row
filter_only_issues(display_df, mask) ==
    LET n == Len(display_df.rows)
        keep_idx == {i \in 1..n : i = n \/ \E c \in Columns(display_df) : <<i - 1, c>> \in mask}
    IN  DataFrame(display_df.columns,
            Concat([i \in 1..n |-> IF i \in keep_idx THEN <<display_df.rows[i]>> ELSE <<>>]))

\* the frame runUI hands to the editor widget (lines 440-657).  ev is the
\* widget event of this script run, only_issues the state of the toggle.
editor_frame(session_df, specs, ev, only_issues) ==
    LET fields == order_fields_required_first(specs)
        uploaded == IF ev.kind = "upload" THEN read_upload(fields, ev.file) ELSE session_df
        started == IF ev.kind = "start_new" THEN empty_template(fields) ELSE uploaded
        initialised == IF started = None THEN empty_template(fields) ELSE started
        pressed == CASE ev.kind = "add_example" -> press_add_example(initialised, specs)
                     [] ev.kind = "select_all" -> press_select_all(initialised)
                     [] ev.kind = "clear_sel" -> press_clear_sel(initialised)
                     [] ev.kind = "auto_fix" -> press_auto_fix(initialised)
                     [] OTHER -> initialised
        \* line 606, and the editor's column order and date dtypes (611-618);
        \* the issues column is dropped again before the frame is persisted
        display_df == coerce_date_dtypes(
                          reindex(ensure_tail_blank(pressed), <<DELETE_COL>> \o fields))
        pre_export2 == snapshot(display_df)
        invalid_mask_tmp == build_invalid_mask(pre_export2, full_report(pre_export2, specs))
    IN  IF only_issues /\ Len(pre_export2.rows) > 0
        THEN filter_only_issues(display_df, invalid_mask_tmp)
        ELSE display_df

\* what the editor widget returns for the frame it was given
editor(base_display_df, ev) ==
    CASE ev.kind = "edit_cell" ->
            DataFrame(base_display_df.columns,
                [base_display_df.rows EXCEPT ![ev.r][ev.c] = ev.v])
      [] ev.kind = "add_row" ->
            DataFrame(base_display_df.columns,
                base_display_df.rows \o <<[c \in Columns(base_display_df) |-> NaN]>>)
      [] ev.kind = "delete_row" ->
            DataFrame(base_display_df.columns,
                SubSeq(base_display_df.rows, 1, ev.r - 1)
                \o SubSeq(base_display_df.rows, ev.r + 1, Len(base_display_df.rows)))
      [] OTHER -> base_display_df

\* the frame persisted from what the widget returned (lines 745-752, 769-771)
persist(edited) == coerce_date_dtypes(ensure_tail_blank(edited))

\* lines 792-798 and 892: no cell of the invalid mask is set
download_gate(export_df, report) == build_invalid_mask(export_df, report) = {}

----------------------------------------------------------------------------
(* submit.py and nfdi-ena-cli.py: the field definitions and the validators  *)

\* load_fields_from_xml, projected on the fields both files define in code
\* and one optional field the checklist file gives a pattern for
FIELD_DEFS ==
    [f \in {"sample_name", "genome coverage", "project name"} |->
        CASE f = "sample_name" ->
                [type |-> "free", regex |-> "", enum |-> {}, mandatory |-> TRUE]
          [] f = "genome coverage" ->
                [type |-> "regex", regex |-> RX_COVERAGE, enum |-> {}, mandatory |-> TRUE]
          [] OTHER ->
                [type |-> "regex", regex |-> RX_LETTERS, enum |-> {}, mandatory |-> FALSE]]

\* submit.py validate_dataframe: one error record per offending cell, column
\* by column; row is the index plus one
web_validate_dataframe(df, field_defs) ==
    Concat([j \in 1..Len(df.columns) |->
        LET col == df.columns[j]
        IN  IF col \notin DOMAIN field_defs THEN <<>>
            ELSE Concat([i \in 1..Len(df.rows) |->
                LET field == field_defs[col]
                    value == df.rows[i][col]
                    value_str == IF isna(value) THEN "" ELSE strip(str(value))
                IN  IF field.mandatory /\ value_str = ""
                    THEN <<[row |-> i, field |-> col, value |-> "",
                            expected |-> "Mandatory field"]>>
                    ELSE IF value_str = "" THEN <<>>
                    ELSE IF field.type = "regex" /\ ~re_fullmatch(field.regex, value_str)
                    THEN <<[row |-> i, field |-> col, value |-> value_str,
                            expected |-> field.regex]>>
                    ELSE IF field.type = "enum" /\ value_str \notin field.enum
                    THEN <<[row |-> i, field |-> col, value |-> value_str,
                            expected |-> "enum"]>>
                    ELSE <<>>])])

\* the rows (numbered from 1) of df that satisfy a filter of the CLI validator
cli_invalid_rows(df, col, field, check) ==
    LET filled(v) == ~isna(v) /\ strip(v) # ""
        bad(v) == CASE check = "empty" -> isna(v) \/ strip(v) = ""
                    [] check = "regex mismatch" ->
                          filled(v) /\ ~str_contains(field.regex, v)
                    [] OTHER -> filled(v) /\ v \notin field.enum
    IN  Concat([i \in 1..Len(df.rows) |->
            IF bad(df.rows[i][col]) THEN <<i>> ELSE <<>>])

\* nfdi-ena-cli.py validate_dataframe, the body of the loop (lines 113-152):
\* the entries one column adds to the list errors
cli_column_errors(df, col, field_defs) ==
    IF col \notin DOMAIN field_defs THEN <<>>
    ELSE LET field == field_defs[col]
             entry(check) ==
                 LET invalid_rows == cli_invalid_rows(df, col, field, check)
                 IN  IF invalid_rows = <<>> THEN <<>>
                     ELSE <<[column |-> col, problem |-> check,
                             rows |-> invalid_rows]>>
         IN  (IF field.mandatory THEN entry("empty") ELSE <<>>)
             \o (IF field.type = "regex" THEN entry("regex mismatch") ELSE <<>>)
             \o (IF field.type = "enum" THEN entry("invalid choice") ELSE <<>>)

\* a validator that gives up at the first entry
cli_validate_dataframe_first(df, field_defs) ==
    LET found == Concat([j \in 1..Len(df.columns) |->
                     cli_column_errors(df, df.columns[j], field_defs)])
    IN  IF found = <<>> THEN <<>> ELSE <<Head(found)>>

\* nfdi-ena-cli.py validate_dataframe: the list errors, one entry per column
\* and check that found rows; the caller gets ValueError when it is not empty
cli_validate_dataframe(df, field_defs) ==
    Concat([j \in 1..Len(df.columns) |->
        cli_column_errors(df, df.columns[j], field_defs)])

----------------------------------------------------------------------------
(* State                                                                   *)

VARIABLES
    \* the metadata editor page
    csv,               \* the rows of the schema file CSV_SPEC_PATH names
    metadata_df,       \* st.session_state.metadata_df
    download_enabled,  \* the download button was rendered by the last run
    issues_shown,      \* the "All issues" metric of the last run
    \* one call of a validator
    table,             \* the table handed to the validator
    validated_by,      \* the validator that ran, "none" before
    issue_report,      \* the five reports of the editor's validators, concatenated
    error_df,          \* what submit.py validate_dataframe returned
    errors,            \* the list errors of nfdi-ena-cli.py validate_dataframe
    \* one run of a submission program
    program,           \* "cli" (nfdi-ena-cli.py) or "web" (submit.py), "none" before
    sample_df,         \* the metadata table of the run (df in the code)
    fasta_map,         \* the sample names a FASTA file was found for
    batch_size,        \* the rows of one batch
    pc,                \* the place of the run in the program
    offset,            \* the loop variable of build_and_submit
    project_accession, \* a study accession is known
    documents,         \* the XML documents built so far
    requests,          \* the registration calls made so far, with their outcome
    receipts,          \* the offsets of the batches whose receipt was parsed
    alias_to_accession, \* the samples of the current batch still to upload
    accessioned,       \* the aliases a receipt gave an accession for
    invocations,       \* the runs of the upload tool, with their result
    samples_submitted,
    samples_error,
    exception,         \* the exception that ended the run
    temp_files,        \* the temporary files of the upload loop that exist
    manifest,          \* the manifest written last, with the FASTA file it is for
    staged,            \* the sample names whose staged FASTA file exists
    unlink_failed,     \* the staged files whose removal raised
    poll_responses,    \* the status codes the poll link answered, until the receipt is read
    root,              \* the receipt parsed last
    \* one request to the validation service (src/api/validation.py)
    request,           \* the body of the POST /validate request
    response,          \* the answer: HTTP status and body
    \* one call of the shape validators of the editor
    semantic_value,    \* the characters of the value handed to the validators
    semantic_valid     \* what validate_envo_like and validate_taxid_like returned

editor_vars == <<csv, metadata_df, download_enabled, issues_shown>>
validate_vars == <<table, validated_by, issue_report, error_df, errors>>

submit_vars == <<program, sample_df, fasta_map, batch_size, pc, offset,
                 project_accession, documents, requests, receipts,
                 alias_to_accession, accessioned, invocations,
                 samples_submitted, samples_error, exception,
                 temp_files, manifest, staged, unlink_failed, poll_responses, root>>

\* the files of a run
file_vars == <<temp_files, manifest, staged, unlink_failed>>

api_vars == <<request, response>>

shape_vars == <<semantic_value, semantic_valid>>

vars == <<editor_vars, validate_vars, submit_vars, api_vars, shape_vars>>

\* no request has been made, no answer given
NoRequest == [metadata |-> "", value |-> <<>>]
NoResponse == [status_code |-> 0, body |-> [detail |-> ""]]

NoException == [type |-> "none", args |-> <<>>]

\* no receipt has been parsed
NoReceipt == [parsable |-> FALSE, status |-> <<>>, project |-> FALSE]

\* no manifest has been written
NoManifest ==
    [alias |-> "", fasta |-> <<>>, seq_count |-> 0, lines_read |-> 0,
     chromosome_list |-> FALSE, study |-> FALSE, sample |-> FALSE]

\* the parts of the state a page or program does not use keep these values
EditorIdle ==
    /\ metadata_df = None
    /\ download_enabled = FALSE
    /\ issues_shown = 0

ValidateIdle ==
    /\ table = None
    /\ validated_by = "none"
    /\ issue_report = <<>>
    /\ error_df = <<>>
    /\ errors = <<>>

SubmitIdle ==
    /\ program = "none"
    /\ sample_df = None
    /\ fasta_map = {}
    /\ batch_size = 1
    /\ pc = "idle"
    /\ offset = 0
    /\ project_accession = FALSE
    /\ documents = <<>>
    /\ requests = <<>>
    /\ receipts = {}
    /\ alias_to_accession = <<>>
    /\ accessioned = {}
    /\ invocations = <<>>
    /\ samples_submitted = 0
    /\ samples_error = 0
    /\ exception = NoException
    /\ temp_files = {}
    /\ manifest = NoManifest
    /\ staged = {}
    /\ unlink_failed = {}
    /\ poll_responses = <<>>
    /\ root = NoReceipt

ApiIdle ==
    /\ request = NoRequest
    /\ response = NoResponse

\* the validators were not called
NotCalled == [called |-> FALSE, envo |-> FALSE, taxid |-> FALSE]

ShapeIdle ==
    /\ semantic_value = <<>>
    /\ semantic_valid = NotCalled

----------------------------------------------------------------------------
(* The metadata editor page: one action is one script run of runUI, started *)
(* by one widget event.  Both editor widgets (lines 660-771) return the     *)
(* frame they were given with the user's edit, date cells as timestamps.    *)

\* the data rows a dataset of the model holds at most
MaxRows == 2

\* the schema files of the model: the key field as UNIQUE_KEY_ALIASES spells
\* it, and the key field in another letter case
SPEC_CSV == <<SpecRow("project name", RX_LETTERS, "a"), SpecRow("collection date", "", ISO_DATE)>>
SPEC_CSVS ==
    { SPEC_CSV,
      <<SpecRow("Project Name", RX_LETTERS, "a"), SpecRow("collection date", "", ISO_DATE)>> }

\* the cells of an uploaded file: read_csv gives NaN for an empty cell
FileValues(c) ==
    IF infer_kind(c) = "date" THEN {NaN, ISO_DATE}
    ELSE IF c = "ENA-CHECKLIST" THEN {NaN, "ERC000011"}
    ELSE {NaN, "a"}

\* the values a cell edit can leave in a column of the editor
EditorValues(c) ==
    IF c = DELETE_COL THEN {PyTrue, PyFalse}
    ELSE IF infer_kind(c) = "date" THEN {TS, NaT}
    ELSE IF c = "ENA-CHECKLIST" THEN {"", "ERC000011"}
    ELSE {"", "a"}

InitEditor ==
    /\ csv \in SPEC_CSVS
    /\ EditorIdle
    /\ ValidateIdle
    /\ SubmitIdle
    /\ ApiIdle
    /\ ShapeIdle

\* the second half of a script run (lines 659-899): the widget shows the
\* frame and returns it with the edit of ev, the result is persisted, and the
\* validation summary and the download section are rendered from it
after_editor(shown, specs, ev) ==
    LET df == persist(editor(shown, ev))
        export_df == snapshot(df)
        report == full_report(export_df, specs)
    IN  [metadata_df |-> df,
         download_enabled |-> download_gate(export_df, report),
         issues_count |-> issues_count(report)]

\* the edits the user can make in the frame the widget shows: none, one
\* cell, or (st.data_editor, num_rows="dynamic") a row added or removed
widget_edits(shown, edit) ==
    CASE edit = "edit_cell" ->
            {e \in [kind : {"edit_cell"}, r : 1..Len(shown.rows), c : Columns(shown),
                    v : {PyTrue, PyFalse, TS, NaT, "", "a", "ERC000011"}] :
                /\ e.v \in EditorValues(e.c)
                /\ e.v # shown.rows[e.r][e.c]}
      [] edit = "add_row" -> {[kind |-> "add_row"]}
      [] edit = "delete_row" -> [kind : {"delete_row"}, r : 1..Len(shown.rows)]
      [] OTHER -> {[kind |-> "none"]}

\* one script run of runUI for the widget event ev and the edit made in the
\* frame the run displays
runUI(ev, only_issues, edit) ==
    \E shown \in {editor_frame(metadata_df, load_specs(csv), ev, only_issues)} :
        \E e \in widget_edits(shown, edit) :
            \E out \in {after_editor(shown, load_specs(csv), e)} :
                /\ Len(out.metadata_df.rows) <= MaxRows + 1
                /\ metadata_df' = out.metadata_df
                /\ download_enabled' = out.download_enabled
                /\ issues_shown' = out.issues_count
                /\ UNCHANGED <<csv, validate_vars, submit_vars, api_vars, shape_vars>>

Press(kind) ==
    \E only_issues \in BOOLEAN : runUI([kind |-> kind], only_issues, "none")

\* the uploaded files of the model: a header alone, or one row
UploadFiles(fields) ==
    {<<>>} \cup
    {<<row>> : row \in {r \in [Range(fields) -> {NaN, ISO_DATE, "a", "ERC000011"}] :
                           \A c \in Range(fields) : r[c] \in FileValues(c)}}

Upload ==
    \E only_issues \in BOOLEAN :
        \E file \in UploadFiles(order_fields_required_first(load_specs(csv))) :
            runUI([kind |-> "upload", file |-> file], only_issues, "none")

StartNew == Press("start_new")
AddExample == Press("add_example")
SelectAll == Press("select_all")
ClearSel == Press("clear_sel")
AutoFix == Press("auto_fix")
\* a run that changes no data: the toggle, "Go to next error"
Rerun == Press("rerun")

EditCell ==
    \E only_issues \in BOOLEAN : runUI([kind |-> "rerun"], only_issues, "edit_cell")

\* HAS_AGGRID is False: st.data_editor(num_rows="dynamic") offers the cell
\* edits of the grid and lets the user add and remove rows
AddRow ==
    \E only_issues \in BOOLEAN : runUI([kind |-> "rerun"], only_issues, "add_row")

DeleteRow ==
    \E only_issues \in BOOLEAN : runUI([kind |-> "rerun"], only_issues, "delete_row")

NextEditor ==
    \/ Upload \/ StartNew \/ AddExample \/ SelectAll \/ ClearSel
    \/ AutoFix \/ Rerun \/ EditCell \/ AddRow \/ DeleteRow

SpecEditor == InitEditor /\ [][NextEditor]_vars

----------------------------------------------------------------------------
(* Claims about the metadata editor page                                   *)

\* every field of the row is empty, missing or false
fully_blank(row) ==
    \A c \in DOMAIN row : row[c] \in {"", " ", NaN, NaT, PyFalse}

\* C1: the CSV download is enabled if and only if the validation report of
\* the snapshot holds no invalid issue, dataset-level issues and issues on
\* fields that are not columns included.
C1_ExportGateIsValidationGate ==
    metadata_df # None => (download_enabled <=> issues_shown = 0)

\* C2: after every mutation (upload, start new, add example row, select all,
\* clear selection, auto-fix, cell edit, row added or removed) the live
\* dataset ends in a fully blank row and has no other fully blank row.
C2_OneTrailingBlankRow ==
    metadata_df # None =>
        LET n == Len(metadata_df.rows)
        IN  /\ n >= 1
            /\ fully_blank(metadata_df.rows[n])
            /\ \A i \in 1..(n - 1) : ~fully_blank(metadata_df.rows[i])

\* C2's case: a dataset of two data rows after edits, one of them kept only
\* by its ticked selection box, the other holding a missing key from an upload
C2_Witness ==
    /\ metadata_df # None
    /\ Len(metadata_df.rows) = 3
    /\ \E i \in 1..2 :
        /\ metadata_df.rows[i][DELETE_COL] = PyTrue
        /\ \A c \in DOMAIN metadata_df.rows[i] :
              c # DELETE_COL => metadata_df.rows[i][c] \in {"", NaN, NaT}
    /\ fully_blank(metadata_df.rows[3])

\* C27: a script run with the toggle "Show only rows with problems" on and
\* no edit in the widget leaves every non-blank row of the live dataset in
\* the live dataset, the rows without an issue included.
C27_FilterIsPresentationOnly ==
    [][(/\ metadata_df # None
        /\ runUI([kind |-> "rerun"], TRUE, "none"))
          => \A i \in 1..Len(metadata_df.rows) :
                ~_is_blank_row(metadata_df.rows[i]) =>
                    \E j \in 1..Len(metadata_df'.rows) :
                        metadata_df'.rows[j] = metadata_df.rows[i]]_vars

----------------------------------------------------------------------------
(* The validators as functions of a table: the table is drawn at the start, *)
(* one action is one call                                                   *)

\* the rows a table of the model holds at most
MaxTableRows == 2

\* snapshots of the editor's dataset (a snapshot does not end in an empty
\* row, drop_tail_blank_for_export has removed it) and tables of the submit
\* page and the command line
EditorSnapshots ==
    LET columns == <<"project name", "collection date", "ENA-CHECKLIST">>
        cells(c) == CASE c = "project name" -> {NaN, "", " ", "a", " a", "nan", "s1"}
                      [] c = "collection date" -> {NaN, ISO_DATE}
                      [] OTHER -> {"", "ERC000011", "ERC000047"}
        all_cells == {NaN, "", " ", "a", " a", "nan", "s1", ISO_DATE, "ERC000011",
                      "ERC000047"}
        rows == {r \in [Range(columns) -> all_cells] : \A c \in Range(columns) : r[c] \in cells(c)}
    IN  {df \in {DataFrame(columns, t) : t \in UNION {[1..n -> rows] : n \in 0..MaxTableRows}} :
            drop_tail_blank_for_export(df) = df}

SubmitTables ==
    LET columns == <<"sample_name", "genome coverage">>
        cells(c) == IF c = "sample_name" THEN {NaN, "s1", "s2"} ELSE {NaN, "10", "x"}
        rows == {r \in [Range(columns) -> {NaN, "s1", "s2", "10", "x"}] :
                    \A c \in Range(columns) : r[c] \in cells(c)}
    IN  {DataFrame(columns, t) : t \in UNION {[1..n -> rows] : n \in 0..MaxTableRows}}

\* tables with the second alias of the key, alone or before the first alias
KeyTables ==
    LET rest == <<"collection date", "ENA-CHECKLIST">>
        frames(keys) ==
            LET rows == {r \in [Range(keys \o rest) -> {NaN, "a", "b", ISO_DATE, "ERC000011"}] :
                            /\ \A c \in Range(keys) : r[c] \in {NaN, "a", "b"}
                            /\ r["collection date"] = ISO_DATE
                            /\ r["ENA-CHECKLIST"] = "ERC000011"}
            IN  {DataFrame(keys \o rest, f) :
                    f \in UNION {[1..n -> rows] : n \in 0..MaxTableRows}}
    IN  frames(<<"project_name", "project name">>) \cup frames(<<"project_name">>)

\* the schema file is SPEC_CSV, or SPEC_CSV with a pattern for the key field
\* that does not compile
InitValidate ==
    /\ csv \in {SPEC_CSV,
                <<SpecRow("project name", RX_BROKEN, "a"), SPEC_CSV[2]>>}
    /\ EditorIdle
    /\ table \in EditorSnapshots \cup SubmitTables \cup KeyTables
    /\ validated_by = "none"
    /\ issue_report = <<>>
    /\ error_df = <<>>
    /\ errors = <<>>
    /\ SubmitIdle
    /\ ApiIdle
    /\ ShapeIdle

\* create_validate_metadata.py runUI, lines 778-789
ValidateEditor ==
    /\ validated_by = "none"
    /\ validated_by' = "editor"
    /\ issue_report' = full_report(table, load_specs(csv))
    /\ UNCHANGED <<editor_vars, submit_vars, api_vars, shape_vars, table, error_df, errors>>

\* submit.py runUI, lines 445-450
ValidateSubmitPage ==
    /\ validated_by = "none"
    /\ Len(table.rows) > 0
    /\ validated_by' = "submit_page"
    /\ error_df' = web_validate_dataframe(table, FIELD_DEFS)
    /\ UNCHANGED <<editor_vars, submit_vars, api_vars, shape_vars, table, issue_report, errors>>

\* nfdi-ena-cli.py main, line 466
ValidateCli ==
    /\ validated_by = "none"
    /\ validated_by' = "cli"
    /\ errors' = cli_validate_dataframe(table, FIELD_DEFS)
    /\ UNCHANGED <<editor_vars, submit_vars, api_vars, shape_vars, table, issue_report, error_df>>

NextValidate == ValidateEditor \/ ValidateSubmitPage \/ ValidateCli

SpecValidate == InitValidate /\ [][NextValidate]_vars

----------------------------------------------------------------------------
(* Claims about the validators                                             *)

\* every field of the row is empty or missing
all_empty(row) ==
    \A c \in DOMAIN row : row[c] \in {"", " ", NaN, NaT}

\* C3: a row whose fields are all empty contributes no issue: no invalid
\* record of the editor's five passes, no error record of the submit page's
\* validator and no row number in an error of the command line's validator
\* refers to such a row.
C3_BlankRowContributesNoIssue ==
    /\ validated_by = "editor" =>
          \A k \in 1..Len(issue_report) :
              (~issue_report[k].valid /\ issue_report[k].row_index # NoRow)
                  => ~all_empty(table.rows[issue_report[k].row_index + 1])
    /\ validated_by = "submit_page" =>
          \A k \in 1..Len(error_df) : ~all_empty(table.rows[error_df[k].row])
    /\ validated_by = "cli" =>
          \A k \in 1..Len(errors) :
              \A r \in Range(errors[k].rows) : ~all_empty(table.rows[r])

\* the key of row i is neither missing nor empty after trimming
has_key(i) ==
    LET v == table.rows[i]["project name"]
    IN  v \notin {NaN, NaT} /\ v \notin {"", " "}

\* the key of row i, trimmed
trimmed_key(i) ==
    LET v == table.rows[i]["project name"]
    IN  IF v = " a" THEN "a" ELSE v

\* the unique-key pass flagged row i as a duplicate
flagged_duplicate(i) ==
    \E k \in 1..Len(issue_report) :
        /\ issue_report[k].row_index = i - 1
        /\ issue_report[k].message = "Duplicate: must be unique."

\* C4: the rows that share a trimmed non-empty key are all flagged as
\* duplicates, and a row whose non-empty key no other row has is not flagged.
C4_DuplicateKeysFlagged ==
    (validated_by = "editor" /\ "project name" \in Columns(table)) =>
        \A i \in 1..Len(table.rows) :
            has_key(i) =>
                (flagged_duplicate(i) <=>
                    \E j \in 1..Len(table.rows) :
                        j # i /\ has_key(j) /\ trimmed_key(j) = trimmed_key(i))

\* C5: a row whose key is empty, whitespace or missing is never flagged as a
\* duplicate, whatever the keys of the other rows are.
C5_EmptyKeysNeverFlagged ==
    (validated_by = "editor" /\ "project name" \in Columns(table)) =>
        \A i \in 1..Len(table.rows) : ~has_key(i) => ~flagged_duplicate(i)

\* C16: two rows that have the same project name, a collection date each and
\* two different allowed checklists get no invalid issue, and the download of
\* the two rows is enabled.
C16_SharedProjectNameIsValid ==
    (/\ validated_by = "editor"
     /\ Len(table.rows) = 2
     /\ "project name" \in Columns(table)
     /\ table.rows[1]["project name"] = "a"
     /\ table.rows[2]["project name"] = "a"
     /\ \A i \in 1..2 : table.rows[i]["collection date"] = ISO_DATE
     /\ table.rows[1]["ENA-CHECKLIST"] = "ERC000011"
     /\ table.rows[2]["ENA-CHECKLIST"] = "ERC000047")
        => /\ \A k \in 1..Len(issue_report) : issue_report[k].valid
           /\ download_gate(table, issue_report)

\* the invalid issues of the report that are about column f
issues_about(f) ==
    {k \in 1..Len(issue_report) :
        ~issue_report[k].valid /\ lower(issue_report[k].field) = f}

\* C19: a required column the table does not have is reported exactly once
\* in a validation run, with no row index, not once for every row; a table
\* without a required column does not pass validation: the editor does not
\* enable the download, the validators of the submit page and of the command
\* line return an error.
C19_AbsentRequiredColumnReportedOnce ==
    /\ validated_by = "editor" =>
           \A f \in Range(REQUIRED_FIELDS) :
               fields_lower(table, f) = "" =>
                   /\ Cardinality(issues_about(f)) = 1
                   /\ \A k \in issues_about(f) : issue_report[k].row_index = NoRow
                   /\ ~download_gate(table, issue_report)
    /\ validated_by = "submit_page" =>
           \A f \in DOMAIN FIELD_DEFS :
               (FIELD_DEFS[f].mandatory /\ f \notin Columns(table))
                   => error_df # <<>>
    /\ validated_by = "cli" =>
           \A f \in DOMAIN FIELD_DEFS :
               (FIELD_DEFS[f].mandatory /\ f \notin Columns(table))
                   => errors # <<>>

\* C20: a pattern of the schema that does not compile lets no value pass
\* silently: the validation run ends with a report, and in it every
\* non-empty value of a field with such a pattern is invalid and has a
\* message that is not the one of a field without a pattern.
C20_BrokenPatternNeverPassesSilently ==
    validated_by = "editor" =>
        \A r \in Range(load_specs(csv)) :
            (r.regex = RX_BROKEN /\ r.field \in Columns(table)) =>
                \A i \in 1..Len(table.rows) :
                    to_str_for_regex(table.rows[i][r.field], infer_kind(r.field)) # ""
                        => \E k \in 1..Len(issue_report) :
                               /\ issue_report[k].row_index = i - 1
                               /\ issue_report[k].field = r.field
                               /\ ~issue_report[k].valid
                               /\ issue_report[k].message \notin {"", "OK", "No regex"}

\* the text of the cell in row i, column c, without the white space around it
cell_text(i, c) ==
    IF isna(table.rows[i][c]) THEN "" ELSE strip(str(table.rows[i][c]))

\* the validator that ran has reported a pattern mismatch for row i, column c
regex_rejected(i, c) ==
    CASE validated_by = "editor" ->
            \E k \in 1..Len(issue_report) :
                /\ issue_report[k].row_index = i - 1
                /\ issue_report[k].field = c
                /\ issue_report[k].message = "Regex mismatch"
      [] validated_by = "submit_page" ->
            \E k \in 1..Len(error_df) :
                /\ error_df[k].row = i
                /\ error_df[k].field = c
                /\ error_df[k].expected = FIELD_DEFS[c].regex
      [] OTHER ->
            \E k \in 1..Len(errors) :
                /\ errors[k].column = c
                /\ errors[k].problem = "regex mismatch"
                /\ i \in Range(errors[k].rows)

\* C21: the pattern check of every validator is a full match: for a field
\* with the pattern [a-z]+ an empty value is not rejected, and a value that
\* is not empty is rejected exactly when its whole text is not in the
\* language of the pattern; so the three validators reject the same values
\* (also one that only contains a match).
C21_RegexIsFullMatchEverywhere ==
    (/\ validated_by # "none"
     /\ "project name" \in Columns(table)
     /\ \E r \in Range(load_specs(csv)) :
            r.field = "project name" /\ r.regex = RX_LETTERS) =>
        \A i \in 1..Len(table.rows) :
            regex_rejected(i, "project name") <=>
                /\ cell_text(i, "project name") # ""
                /\ cell_text(i, "project name") \notin {"a", "b", "nan", "x"}

\* the issues of the unique-key pass in the report
key_issues ==
    {k \in 1..Len(issue_report) :
        issue_report[k].message \in {"Duplicate: must be unique.",
                                     "Unique key field missing in schema."}}

\* C26: the key field is the first of the aliases "project name",
\* "project_name" that is a column of the table, and duplicates are judged
\* on that column only: a row is flagged only if another row has the same
\* text in that column, and two rows with the same key text in it are both
\* flagged; when no alias is a column the pass gives exactly one issue, with
\* no row index, and no issue for a row.
C26_KeyResolution ==
    validated_by = "editor" =>
        IF Range(UNIQUE_KEY_ALIASES) \cap Columns(table) = {}
        THEN /\ Cardinality(key_issues) = 1
             /\ \A k \in key_issues : issue_report[k].row_index = NoRow
        ELSE LET key == IF "project name" \in Columns(table)
                        THEN "project name" ELSE "project_name"
                 text(i) == strip(str(table.rows[i][key]))
                 flagged(i) == \E k \in key_issues :
                                  issue_report[k].row_index = i - 1
             IN  /\ \A k \in key_issues :
                        /\ issue_report[k].field = key
                        /\ issue_report[k].row_index # NoRow
                 /\ \A i \in 1..Len(table.rows) :
                        /\ flagged(i) =>
                               \E j \in 1..Len(table.rows) :
                                   j # i /\ text(j) = text(i)
                        /\ (text(i) \in {"a", "b"} /\ ~flagged(i)) =>
                               \A j \in 1..Len(table.rows) :
                                   j # i => text(j) # text(i)

\* the second alias comes first among the columns and has two equal values,
\* the first alias has two different values: no row is flagged
C26_Witness ==
    /\ validated_by = "editor"
    /\ table.columns[1] = "project_name"
    /\ table.columns[2] = "project name"
    /\ Len(table.rows) = 2
    /\ table.rows[1]["project_name"] = "a"
    /\ table.rows[2]["project_name"] = "a"
    /\ table.rows[1]["project name"] = "a"
    /\ table.rows[2]["project name"] = "b"
    /\ key_issues = {}

----------------------------------------------------------------------------
(* The normaliser as a function of a dataset: the dataset is drawn at the  *)
(* start, one action is one call of ensure_tail_blank on the result of the *)
(* call before                                                             *)

\* the datasets: with or without the selection column, blank rows anywhere,
\* date cells as text, as timestamps or missing
Datasets ==
    LET cells(c) == CASE c = "project name" -> {NaN, "", " ", "a"}
                      [] c = "collection date" -> {NaN, NaT, "", ISO_DATE, TS}
                      [] OTHER -> {NaN, PyFalse, PyTrue}
        all_cells == {NaN, NaT, "", " ", "a", ISO_DATE, TS, PyFalse, PyTrue}
        frames(columns) ==
            LET rows == {r \in [Range(columns) -> all_cells] :
                            \A c \in Range(columns) : r[c] \in cells(c)}
            IN  {DataFrame(columns, t) :
                    t \in UNION {[1..n -> rows] : n \in 0..MaxTableRows}}
    IN  frames(<<"project name", "collection date">>)
        \cup frames(<<"project name", "collection date", DELETE_COL>>)

InitNormalize ==
    /\ csv = SPEC_CSV
    /\ EditorIdle
    /\ table \in Datasets
    /\ validated_by = "none"
    /\ issue_report = <<>>
    /\ error_df = <<>>
    /\ errors = <<>>
    /\ SubmitIdle
    /\ ApiIdle
    /\ ShapeIdle

\* df = ensure_tail_blank(df), the first and the second time
NormalizeTable ==
    /\ validated_by \in {"none", "normalized"}
    /\ table' = ensure_tail_blank(table)
    /\ validated_by' = IF validated_by = "none" THEN "normalized"
                       ELSE "normalized twice"
    /\ UNCHANGED <<editor_vars, submit_vars, api_vars, shape_vars, issue_report, error_df, errors>>

NextNormalize == NormalizeTable

SpecNormalize == InitNormalize /\ [][NextNormalize]_vars

\* C17: normalising a dataset that is already normalised changes nothing:
\* the same columns, the same rows in the same order, one trailing blank row.
C17_NormalizationIdempotent ==
    [][validated_by # "none" => table' = table]_vars

\* a dataset with a data row was normalised twice
C17_Witness ==
    /\ validated_by = "normalized twice"
    /\ Len(table.rows) = 2
    /\ table.rows[1]["project name"] = "a"
    /\ _is_blank_row(table.rows[2])

----------------------------------------------------------------------------
(* The submission programs: main and build_and_submit of nfdi-ena-cli.py,  *)
(* runUI and build_and_submit of submit.py.  One action is the code between *)
(* two calls to the outside (ENA's submission service, the upload tool).   *)
(* nfdi-ena-cli.py is modelled with the comma that line 225 lacks.         *)

\* the rows a metadata table of the model holds at most, and the largest
\* batch size (the code's is 1000: nfdi-ena-cli.py line 174, submit.py line 561)
MaxSamples == 3
MaxBatch == 2
\* the answers of the poll link the model keeps
MaxPolls == 2

\* the sample name of row i
SampleName(i) == <<"s1", "s2", "s3", "s4">>[i]

\* the tables read from the metadata file: a cell is missing or holds a text
SubmissionTables ==
    LET row(name, coverage) ==
            [c \in {"sample_name", "genome coverage"} |->
                IF c = "sample_name" THEN name ELSE coverage]
    IN  UNION {
            {DataFrame(<<"sample_name", "genome coverage">>,
                       [i \in 1..n |-> row(IF named[i] THEN SampleName(i) ELSE NaN,
                                           coverage[i])]) :
                named \in [1..n -> BOOLEAN],
                coverage \in [1..n -> {NaN, "10", "x"}]} :
            n \in 0..MaxSamples}

\* set(df["sample_name"]) - set(fasta_map), in row order
missing(table_df, fastas) ==
    SelectSeq([i \in 1..Len(table_df.rows) |-> table_df.rows[i]["sample_name"]],
              LAMBDA name : name \notin fastas)

\* df.slice(offset, length) that ignores the length
slice_to_end(table_df, start, length) ==
    SubSeq(table_df.rows, start + 1, Len(table_df.rows))

\* df.slice(offset, length): at most length rows from position offset on
slice(table_df, start, length) ==
    SubSeq(table_df.rows, start + 1,
           IF start + length <= Len(table_df.rows)
           THEN start + length ELSE Len(table_df.rows))

\* the SAMPLE_ATTRIBUTE elements of one SAMPLE (nfdi-ena-cli.py lines
\* 250-309, submit.py lines 289-316), as [tag, value]: the fixed attributes,
\* projected on the columns of the model and in the order of the add_attr
\* calls; in nfdi-ena-cli.py the columns of the row that are not reserved,
\* not in the list of lines 279-301 and not empty, in column order; then the
\* checklist, which with_columns has set to ERC000047
sample_attributes(prog, table_df, row) ==
    LET fixed == SelectSeq(<<"project name", "collection date">>,
                           LAMBDA c : c \in Columns(table_df))
        skipped == {"sample_name", "organism", "tax_id", "ENA-CHECKLIST",
                    "project name", "collection date", "platform",
                    "genome coverage"}
        added == SelectSeq(table_df.columns,
                     LAMBDA c : /\ c \notin skipped
                                /\ ~isna(row[c])
                                /\ strip(str(row[c])) # "")
    IN  [k \in 1..Len(fixed) |-> [tag |-> fixed[k], value |-> str(row[fixed[k]])]]
        \o (IF prog = "cli"
            THEN [k \in 1..Len(added) |->
                     [tag |-> added[k], value |-> str(row[added[k]])]]
            ELSE <<>>)
        \o <<[tag |-> "ENA-CHECKLIST", value |-> "ERC000047"]>>

\* a document that has the PROJECT_SET whatever is known
build_document_with_project(prog, table_df, start, length, has_project) ==
    LET batch == slice(table_df, start, length)
    IN  [offset |-> start,
         project_set |-> TRUE,
         samples |-> [j \in 1..Len(batch) |-> str(batch[j]["sample_name"])],
         attributes |-> [j \in 1..Len(batch) |->
                            sample_attributes(prog, table_df, batch[j])]]

\* the XML document of the batch at offset: a PROJECT_SET when no study
\* accession is known, and one SAMPLE per row of the slice, alias =
\* sample_name, with its attributes
build_document(prog, table_df, start, length, has_project) ==
    LET batch == slice(table_df, start, length)
    IN  [offset |-> start,
         project_set |-> ~has_project,
         samples |-> [j \in 1..Len(batch) |-> str(batch[j]["sample_name"])],
         attributes |-> [j \in 1..Len(batch) |->
                            sample_attributes(prog, table_df, batch[j])]]

\* what ENA can answer for a document: a text that is not XML, or a receipt
\* that for every sample of the document says created (a SAMPLE element with
\* an accession), exists (a SAMPLE element without accession and an ERROR
\* that quotes alias and accession) or rejected (neither accession nor
\* quoting ERROR), and that holds the accession of a created project
Receipts(doc) ==
    {[parsable |-> FALSE, status |-> <<>>, project |-> FALSE]}
    \cup {[parsable |-> TRUE, status |-> st, project |-> p] :
            st \in [1..Len(doc.samples) -> {"created", "exists", "rejected"}],
            p \in IF doc.project_set THEN BOOLEAN ELSE {FALSE}}

\* the positions of a document's samples that have one of the statuses
with_status(doc, receipt, statuses) ==
    SelectSeq([j \in 1..Len(doc.samples) |-> j],
              LAMBDA j : receipt.status[j] \in statuses)

\* nfdi-ena-cli.py: the keys of alias_to_accession in insertion order, the
\* SAMPLE elements with an accession, then the aliases the ERRORs quote
cli_alias_to_accession(doc, receipt) ==
    LET order == with_status(doc, receipt, {"created"})
                 \o with_status(doc, receipt, {"exists"})
    IN  [k \in 1..Len(order) |-> doc.samples[order[k]]]

\* submit.py: root.findall("SAMPLE"), every SAMPLE element of the receipt
web_samples(doc, receipt) == doc.samples

\* the aliases the program has read an accession for
accessions(prog, doc, receipt) ==
    {doc.samples[j] : j \in {j \in 1..Len(doc.samples) :
        receipt.status[j] \in IF prog = "cli" THEN {"created", "exists"}
                              ELSE {"created"}}}

\* the lines a FASTA file of the model holds at most
MaxLines == 3

\* the FASTA files: a line is a record header (it starts with ">") or
\* sequence text
FastaFiles == UNION {[1..n -> {">", "ACGT"}] : n \in 0..MaxLines}

\* the scan of the file (nfdi-ena-cli.py lines 371-381, submit.py lines
\* 347-357): the headers are counted and the loop is left at the second one
RECURSIVE count_sequences(_, _, _)
count_sequences(lines, seq_count, lines_read) ==
    IF lines = <<>>
    THEN [seq_count |-> seq_count, lines_read |-> lines_read]
    ELSE IF Head(lines) = ">"
         THEN IF seq_count + 1 > 1
              THEN [seq_count |-> seq_count + 1, lines_read |-> lines_read + 1]
              ELSE count_sequences(Tail(lines), seq_count + 1, lines_read + 1)
         ELSE count_sequences(Tail(lines), seq_count, lines_read + 1)

\* a chromosome list for every file in which a header was seen
has_any_sequence(seq_count) == seq_count >= 1

\* the test "if seq_count == 1" before the chromosome list is written
has_chromosome_list(seq_count) == seq_count = 1

\* the sample_accession of the upload loop's turn: in nfdi-ena-cli.py the
\* value of the alias in alias_to_accession, which holds accessions only; in
\* submit.py sample.get("accession") of the SAMPLE element the loop is at,
\* None when the element has no such attribute.  todo is what the loop has
\* still to go through, the turn's sample first.
sample_accession(prog, receipt, todo) ==
    \/ prog = "cli"
    \/ receipt.status[Len(receipt.status) - Len(todo) + 1] = "created"

\* the manifest of a sample and what was read for it; study and sample say
\* whether the STUDY and the SAMPLE line hold an accession or the text None
write_manifest(alias, fasta, study, sample) ==
    LET scanned == count_sequences(fasta, 0, 0)
    IN  [alias |-> alias, fasta |-> fasta,
         seq_count |-> scanned.seq_count, lines_read |-> scanned.lines_read,
         chromosome_list |-> has_chromosome_list(scanned.seq_count),
         study |-> study, sample |-> sample]

\* the temporary files written for a manifest
written_files(written) ==
    {"manifest"} \cup IF written.chromosome_list THEN {"chromosome_list.gz"} ELSE {}

\* removal after the tool's output was handled, which an exception skips
remove_after_output(files, written, result) ==
    IF result = "cannot run" THEN files ELSE files \ written_files(written)

\* the finally block: os.remove(manifest_path) and, when the side-file was
\* made and exists, os.remove(chromosome_gz_path), whatever the try block did
remove_temporaries(files, written, result) ==
    (files \ {"manifest"}) \
        IF written.chromosome_list THEN {"chromosome_list.gz"} ELSE {}

InitSubmit ==
    /\ csv = SPEC_CSV
    /\ EditorIdle
    /\ ValidateIdle
    /\ ApiIdle
    /\ ShapeIdle
    /\ program \in {"cli", "web"}
    /\ sample_df \in SubmissionTables
    /\ fasta_map \in SUBSET {SampleName(i) : i \in 1..MaxSamples}
    /\ batch_size \in 1..MaxBatch
    /\ pc = "start"
    /\ offset = 0
    /\ project_accession \in BOOLEAN
    /\ documents = <<>>
    /\ requests = <<>>
    /\ receipts = {}
    /\ alias_to_accession = <<>>
    /\ accessioned = {}
    /\ invocations = <<>>
    /\ samples_submitted = 0
    /\ samples_error = 0
    /\ exception = NoException
    /\ temp_files = {}
    /\ manifest = NoManifest
    /\ staged = {}
    /\ unlink_failed = {}
    /\ poll_responses = <<>>
    /\ root = NoReceipt

\* the variables of a run other than pc, exception and the files
run_vars == <<program, sample_df, fasta_map, batch_size, offset,
              project_accession, documents, requests, receipts,
              alias_to_accession, accessioned, invocations,
              samples_submitted, samples_error>>

\* nfdi-ena-cli.py main, lines 463-484
CliMain ==
    /\ program = "cli"
    /\ pc = "start"
    /\ \E found \in {cli_validate_dataframe(sample_df, FIELD_DEFS)} :
          IF found # <<>>
          THEN /\ pc' = "raised"
               /\ exception' = [type |-> "ValueError", args |-> found]
          ELSE IF missing(sample_df, fasta_map) # <<>>
          THEN /\ pc' = "raised"
               /\ exception' = [type |-> "RuntimeError",
                                args |-> missing(sample_df, fasta_map)]
          ELSE /\ pc' = "batch"
               /\ exception' = exception
    /\ UNCHANGED <<poll_responses, root, editor_vars, validate_vars, api_vars, shape_vars, run_vars, file_vars>>

\* submit.py runUI, lines 449-461: the Validate button.  At the start
\* edited_df is the table of the run; once the form is shown the user can
\* change the table in the editor and press the button again: a table
\* without an error replaces st.session_state.submission, after st.error or
\* st.stop() the session keeps the submission it has
WebValidate ==
    /\ program = "web"
    /\ pc \in {"start", "form"}
    /\ \E edited_df \in IF pc = "start" THEN {sample_df} ELSE SubmissionTables :
          IF \/ Len(edited_df.rows) = 0
             \/ web_validate_dataframe(edited_df, FIELD_DEFS) # <<>>
          THEN /\ pc' = IF pc = "start" THEN "stopped" ELSE pc
               /\ sample_df' = sample_df
          ELSE /\ pc' = IF pc = "start" THEN "staging" ELSE pc
               /\ sample_df' = edited_df
    /\ UNCHANGED <<poll_responses, root, editor_vars, validate_vars, api_vars, shape_vars,
                   program, fasta_map, batch_size, offset,
                   project_accession, documents, requests, receipts,
                   alias_to_accession, accessioned, invocations,
                   samples_submitted, samples_error, exception, file_vars>>

\* submit.py runUI, lines 463-481: persist_fastas_temp writes every uploaded
\* FASTA file to a temporary file, then the names are compared
WebStage ==
    /\ pc = "staging"
    /\ pc' = IF missing(sample_df, fasta_map) # <<>> THEN "stopped" ELSE "form"
    /\ staged' = fasta_map
    /\ UNCHANGED <<poll_responses, root, editor_vars, validate_vars, api_vars, shape_vars, run_vars, exception,
                   temp_files, manifest, unlink_failed>>

\* submit.py runUI, lines 546-557: the Submit button
WebSubmit ==
    /\ pc = "form"
    /\ pc' = "batch"
    /\ UNCHANGED <<poll_responses, root, editor_vars, validate_vars, api_vars, shape_vars, run_vars, exception, file_vars>>

\* build_and_submit, one turn of the loop up to the request
\* (nfdi-ena-cli.py lines 190-311, submit.py lines 229-318)
BuildBatch ==
    /\ pc = "batch"
    /\ offset < Len(sample_df.rows)
    /\ documents' = Append(documents,
          build_document(program, sample_df, offset, batch_size,
                         project_accession))
    /\ pc' = "post"
    /\ UNCHANGED <<poll_responses, root, editor_vars, validate_vars, api_vars, shape_vars, program, sample_df, fasta_map,
                   batch_size, offset, project_accession, requests, receipts,
                   alias_to_accession, accessioned, invocations,
                   samples_submitted, samples_error, exception, file_vars>>

\* the registration call (nfdi-ena-cli.py lines 313-329, submit.py lines
\* 320-334).  nfdi-ena-cli.py reads the poll link out of the JSON answer;
\* submit.py parses whatever text came back.
Post ==
    /\ pc = "post"
    /\ poll_responses' = <<>>
    /\ \E outcome \in {"accepted", "non-2xx", "network error"} :
          /\ requests' = Append(requests, [offset |-> offset, outcome |-> outcome])
          /\ CASE outcome = "accepted" ->
                    /\ pc' = IF program = "cli" THEN "poll" ELSE "receipt"
                    /\ exception' = exception
               [] outcome = "network error" ->
                    /\ pc' = "raised"
                    /\ exception' = [type |-> "ConnectionError", args |-> <<>>]
               [] OTHER ->
                    /\ pc' = "raised"
                    /\ \E type \in IF program = "cli"
                                   THEN {"JSONDecodeError", "KeyError"}
                                   ELSE {"ParseError"} :
                          exception' = [type |-> type, args |-> <<>>]
    /\ UNCHANGED <<root, editor_vars, validate_vars, api_vars, shape_vars, program, sample_df, fasta_map,
                   batch_size, offset, project_accession, documents, receipts,
                   alias_to_accession, accessioned, invocations,
                   samples_submitted, samples_error, file_vars>>

\* the polling loop at its first answer: what came back is parsed, whatever
\* the status code
PollOnce ==
    /\ pc = "poll"
    /\ \E status_code \in {200, 202} :
          /\ pc' = "receipt"
          /\ poll_responses' = Append(poll_responses, status_code)
    /\ UNCHANGED <<root, editor_vars, validate_vars, api_vars, shape_vars, run_vars,
                   exception, file_vars>>

\* nfdi-ena-cli.py lines 331-336: one GET of the poll link.  The loop goes on
\* until the answer has status 200, five seconds after every other answer;
\* poll_responses keeps the last MaxPolls status codes.
Poll ==
    /\ pc = "poll"
    /\ \/ \E status_code \in {200, 202} :
              /\ pc' = IF status_code = 200 THEN "receipt" ELSE pc
              /\ exception' = exception
              /\ poll_responses' =
                     IF Len(poll_responses) < MaxPolls
                     THEN Append(poll_responses, status_code)
                     ELSE Append(Tail(poll_responses), status_code)
       \/ /\ pc' = "raised"
          /\ exception' = [type |-> "ConnectionError", args |-> <<>>]
          /\ poll_responses' = poll_responses
    /\ UNCHANGED <<root, editor_vars, validate_vars, api_vars, shape_vars, run_vars, file_vars>>

\* the receipt is parsed (nfdi-ena-cli.py lines 338-366, submit.py lines 329-340)
Receipt ==
    /\ pc = "receipt"
    /\ poll_responses' = <<>>
    /\ \E receipt \in Receipts(documents[Len(documents)]) :
          IF ~receipt.parsable
          THEN /\ pc' = "raised"
               /\ exception' = [type |-> "ParseError", args |-> <<>>]
               /\ UNCHANGED <<receipts, alias_to_accession, accessioned,
                              project_accession, root>>
          ELSE /\ pc' = "upload"
               /\ exception' = exception
               /\ receipts' = receipts \cup {offset}
               /\ root' = receipt
               /\ alias_to_accession' =
                     IF program = "cli"
                     THEN cli_alias_to_accession(documents[Len(documents)], receipt)
                     ELSE web_samples(documents[Len(documents)], receipt)
               /\ accessioned' = accessioned \cup
                     accessions(program, documents[Len(documents)], receipt)
               /\ project_accession' = (project_accession \/ receipt.project)
    /\ UNCHANGED <<editor_vars, validate_vars, api_vars, shape_vars, program, sample_df, fasta_map,
                   batch_size, offset, documents, requests, invocations,
                   samples_submitted, samples_error, file_vars>>

\* one turn of the upload loop up to the tool (nfdi-ena-cli.py lines 368-405,
\* submit.py lines 342-378): the FASTA file is scanned, the manifest and, for
\* a single-sequence file, the chromosome list are written to temporary files
PrepareManifest ==
    /\ pc = "upload"
    /\ alias_to_accession # <<>>
    /\ IF Head(alias_to_accession) \notin fasta_map
       THEN \* fasta_path = fasta_map[alias]
            /\ pc' = "raised"
            /\ exception' = [type |-> "KeyError", args |-> <<>>]
            /\ UNCHANGED <<manifest, temp_files>>
       ELSE /\ \E fasta \in FastaFiles :
                  \E written \in {write_manifest(Head(alias_to_accession), fasta,
                                       project_accession,
                                       sample_accession(program, root, alias_to_accession))} :
                      /\ manifest' = written
                      /\ temp_files' = temp_files \cup written_files(written)
            /\ pc' = "tool"
            /\ exception' = exception
    /\ UNCHANGED <<poll_responses, root, editor_vars, validate_vars, api_vars, shape_vars, run_vars,
                   staged, unlink_failed>>

\* the rest of the turn (nfdi-ena-cli.py lines 407-431, submit.py lines
\* 380-404): the tool prints "successfully", prints something else, or
\* subprocess.run cannot start it and raises; there is no except clause, the
\* finally block removes the temporary files
RunWebinCli ==
    /\ pc = "tool"
    /\ \E result \in {"success", "failure", "cannot run"} :
          /\ invocations' = Append(invocations,
                [alias |-> Head(alias_to_accession), offset |-> offset,
                 result |-> result])
          /\ temp_files' = remove_temporaries(temp_files, manifest, result)
          /\ IF result = "cannot run"
             THEN /\ pc' = "raised"
                  /\ exception' = [type |-> "FileNotFoundError", args |-> <<>>]
                  /\ UNCHANGED <<samples_submitted, samples_error>>
             ELSE /\ pc' = "upload"
                  /\ exception' = exception
                  /\ samples_submitted' =
                        IF program = "web" \/ result = "success"
                        THEN samples_submitted + 1 ELSE samples_submitted
                  /\ samples_error' =
                        IF result = "success"
                        THEN samples_error ELSE samples_error + 1
    /\ alias_to_accession' = Tail(alias_to_accession)
    /\ UNCHANGED <<poll_responses, root, editor_vars, validate_vars, api_vars, shape_vars, program, sample_df, fasta_map,
                   batch_size, offset, project_accession, documents, requests,
                   receipts, accessioned, manifest, staged, unlink_failed>>

\* the upload loop is through: range(0, len(df), batch_size) gives the next offset
NextBatch ==
    /\ pc = "upload"
    /\ alias_to_accession = <<>>
    /\ offset' = offset + batch_size
    /\ pc' = "batch"
    /\ UNCHANGED <<poll_responses, root, editor_vars, validate_vars, api_vars, shape_vars, program, sample_df, fasta_map,
                   batch_size, project_accession, documents, requests, receipts,
                   alias_to_accession, accessioned, invocations,
                   samples_submitted, samples_error, exception, file_vars>>

\* the loop is through (nfdi-ena-cli.py line 433, submit.py lines 410-416).
\* submit.py unlinks every staged FASTA file, each in its own try/except, so
\* the files whose removal raises stay and the others go
Finish ==
    /\ pc = "batch"
    /\ offset >= Len(sample_df.rows)
    /\ pc' = "done"
    /\ \E failing \in SUBSET staged :
          /\ staged' = IF program = "web" THEN failing ELSE staged
          /\ unlink_failed' = IF program = "web" THEN failing ELSE unlink_failed
    /\ UNCHANGED <<poll_responses, root, editor_vars, validate_vars, api_vars, shape_vars, run_vars, exception,
                   temp_files, manifest>>

NextSubmit ==
    \/ CliMain
    \/ WebValidate
    \/ WebStage
    \/ WebSubmit
    \/ BuildBatch
    \/ Post
    \/ Poll
    \/ Receipt
    \/ PrepareManifest
    \/ RunWebinCli
    \/ NextBatch
    \/ Finish

SpecSubmit == InitSubmit /\ [][NextSubmit]_vars

\* The document builder on tables with columns of the user: the run stands
\* before the loop, with a table that passed validation and a FASTA file
\* for every sample.
AttributeTables ==
    LET free == {NaN, "", " ", "x"}
        row(columns, i, host, notes) ==
            [c \in Range(columns) |->
                CASE c = "sample_name" -> SampleName(i)
                  [] c = "genome coverage" -> "10"
                  [] c = "project name" -> "a"
                  [] c = "host" -> host
                  [] OTHER -> notes]
    IN  UNION {
            {DataFrame(columns, [i \in 1..n |-> row(columns, i, host[i], notes[i])]) :
                host \in [1..n -> free], notes \in [1..n -> free]} :
            columns \in {<<"sample_name", "genome coverage", "project name",
                           "host", "notes">>,
                         <<"notes", "project name", "sample_name", "host",
                           "genome coverage">>},
            n \in 1..MaxBatch}

InitDocument ==
    /\ csv = SPEC_CSV
    /\ EditorIdle
    /\ ValidateIdle
    /\ ApiIdle
    /\ ShapeIdle
    /\ program \in {"cli", "web"}
    /\ sample_df \in AttributeTables
    /\ fasta_map = {SampleName(i) : i \in 1..Len(sample_df.rows)}
    /\ batch_size \in 1..MaxBatch
    /\ pc = "batch"
    /\ offset = 0
    /\ project_accession \in BOOLEAN
    /\ documents = <<>>
    /\ requests = <<>>
    /\ receipts = {}
    /\ alias_to_accession = <<>>
    /\ accessioned = {}
    /\ invocations = <<>>
    /\ samples_submitted = 0
    /\ samples_error = 0
    /\ exception = NoException
    /\ temp_files = {}
    /\ manifest = NoManifest
    /\ staged = IF program = "web" THEN fasta_map ELSE {}
    /\ unlink_failed = {}
    /\ poll_responses = <<>>
    /\ root = NoReceipt

SpecDocument == InitDocument /\ [][BuildBatch]_vars

----------------------------------------------------------------------------
(* Claims about the submission programs                                    *)

\* C6: every document built is the next contiguous batch of the table -
\* document k holds, in row order, one sample for each of the rows
\* (k-1)*b+1 .. min(k*b, n) - and a run that gets through the loop has built
\* exactly ceil(n/b) documents.
C6_ContiguousBatches ==
    LET n == Len(sample_df.rows)
        b == batch_size
    IN  /\ \A k \in 1..Len(documents) :
              /\ (k - 1) * b < n
              /\ documents[k].offset = (k - 1) * b
              /\ documents[k].samples =
                    [j \in 1..(IF k * b <= n THEN b ELSE n - (k - 1) * b) |->
                        sample_df.rows[(k - 1) * b + j]["sample_name"]]
        /\ pc = "done" => Len(documents) = (n + b - 1) \div b

\* a run through three rows in batches of two: a full and a partial document
C6_Witness ==
    /\ pc = "done"
    /\ Len(sample_df.rows) = 3
    /\ batch_size = 2
    /\ Len(documents) = 2
    /\ Len(documents[2].samples) = 1

\* C7: the command line program makes no registration request and runs no
\* upload unless the table has no empty mandatory cell and no malformed
\* coverage and every sample name has a FASTA file; otherwise it ends with
\* ValueError or RuntimeError, and the ValueError of a validation failure
\* names every column and check that found rows, with all their rows.
C7_CliSubmissionGate ==
    program = "cli" =>
        LET rows == sample_df.rows
            fields == {"sample_name", "genome coverage"}
            is_empty(i, c) == rows[i][c] \in {NaN, "", " "}
            malformed(i) == rows[i]["genome coverage"] = "x"
            reported(c, problem, i) ==
                \E k \in 1..Len(exception.args) :
                    /\ exception.args[k].column = c
                    /\ exception.args[k].problem = problem
                    /\ i \in Range(exception.args[k].rows)
            invalid == \E i \in 1..Len(rows) :
                           malformed(i) \/ \E c \in fields : is_empty(i, c)
            no_fasta == \E i \in 1..Len(rows) : rows[i]["sample_name"] \notin fasta_map
        IN  /\ (documents # <<>> \/ requests # <<>> \/ invocations # <<>>)
                  => (~invalid /\ ~no_fasta)
            /\ (pc # "start" /\ (invalid \/ no_fasta))
                  => (pc = "raised" /\ exception.type \in {"ValueError", "RuntimeError"})
            /\ (pc # "start" /\ invalid) =>
                  /\ exception.type = "ValueError"
                  /\ \A i \in 1..Len(rows) :
                        /\ \A c \in fields : is_empty(i, c) => reported(c, "empty", i)
                        /\ malformed(i) => reported("genome coverage", "regex mismatch", i)

\* a table with an unnamed sample and a malformed coverage was refused with
\* one error that names both columns
C7_Witness ==
    /\ program = "cli"
    /\ pc = "raised"
    /\ exception.type = "ValueError"
    /\ \E j, k \in 1..Len(exception.args) :
          /\ exception.args[j].column = "sample_name"
          /\ exception.args[k].column = "genome coverage"
          /\ exception.args[k].problem = "regex mismatch"
    /\ requests = <<>>
    /\ invocations = <<>>

\* C8: an upload that fails - the tool reports a failure or cannot be run -
\* is counted as an error and not raised, and the samples after it are still
\* uploaded: no run ends with samples of the batch left.
C8_FailedUploadDoesNotStopTheRest ==
    LET failed == {k \in 1..Len(invocations) : invocations[k].result # "success"}
    IN  failed # {} =>
            /\ exception.type # "FileNotFoundError"
            /\ samples_error = Cardinality(failed)
            /\ pc \in {"done", "raised"} => alias_to_accession = <<>>

\* C9: a registration call that fails (network error, non-2xx answer, answer
\* that cannot be parsed) does not end the run with an exception; it is
\* counted in the error count.
C9_RegistrationFailureDoesNotCrash ==
    LET failed == {k \in 1..Len(requests) : requests[k].outcome # "accepted"}
    IN  /\ exception.type \notin
              {"ConnectionError", "JSONDecodeError", "KeyError", "ParseError"}
        /\ samples_error >= Cardinality(failed)

\* C10: the upload tool runs at most once for a sample and only for a batch
\* whose receipt has been parsed, and when the run has ended every sample
\* that got an accession is uploaded ("success") or failed ("failure").
C10_PerSampleTerminalStates ==
    /\ \A j, k \in 1..Len(invocations) :
          invocations[j].alias = invocations[k].alias => j = k
    /\ \A k \in 1..Len(invocations) : invocations[k].offset \in receipts
    /\ pc \in {"done", "raised"} =>
          \A a \in accessioned :
              \E k \in 1..Len(invocations) :
                  /\ invocations[k].alias = a
                  /\ invocations[k].result \in {"success", "failure"}

\* C11: whenever the upload tool is not running, no temporary manifest and
\* no chromosome-list side-file exists: what was written for a sample is gone
\* once the tool has returned with success, with failure, or could not be run.
C11_TemporaryFilesReleased ==
    pc # "tool" => temp_files = {}

\* the tool could not be run for a sample with a chromosome list, and both
\* temporary files are gone
C11_Witness ==
    /\ pc = "raised"
    /\ invocations # <<>>
    /\ invocations[Len(invocations)].result = "cannot run"
    /\ manifest.alias = invocations[Len(invocations)].alias
    /\ manifest.chromosome_list
    /\ temp_files = {}

\* C12: when the run is through, the submitted count is the number of tool
\* runs whose output had the success marker, the error count is the number of
\* the other tool runs, and the two add up to the number of tool runs.
C12_OutcomeCounts ==
    pc = "done" =>
        LET succeeded == {k \in 1..Len(invocations) : invocations[k].result = "success"}
        IN  /\ samples_submitted = Cardinality(succeeded)
            /\ samples_error = Len(invocations) - Cardinality(succeeded)
            /\ samples_submitted + samples_error = Len(invocations)

\* C13: the manifest written for a sample has a CHROMOSOME_LIST line, and the
\* side-file exists, if and only if the sample's FASTA file has exactly one
\* record header; and the scan read the file up to its second header and no
\* further, or to its end when there is none.
C13_ChromosomeListIffOneRecord ==
    pc = "tool" =>
        LET headers == {i \in 1..Len(manifest.fasta) : manifest.fasta[i] = ">"}
            second == {i \in headers : Cardinality({h \in headers : h < i}) = 1}
        IN  /\ manifest.chromosome_list <=> Cardinality(headers) = 1
            /\ "chromosome_list.gz" \in temp_files <=> Cardinality(headers) = 1
            /\ "manifest" \in temp_files
            /\ manifest.lines_read =
                  IF second = {} THEN Len(manifest.fasta)
                  ELSE CHOOSE i \in second : TRUE

\* a file with two records and text after the second header: no chromosome
\* list, and the text after the second header was not read
C13_Witness ==
    /\ pc = "tool"
    /\ manifest.fasta = <<">", ">", "ACGT">>
    /\ ~manifest.chromosome_list
    /\ manifest.lines_read = 2
    /\ temp_files = {"manifest"}

\* C14: when a run has ended, with the loop through or with an exception of
\* a registration or upload step, every staged FASTA file is removed except
\* those whose removal failed.
C14_StagedFilesRemoved ==
    pc \in {"done", "raised"} => staged \subseteq unlink_failed

\* C22: after a batch is queued the poll link is fetched again and again;
\* while the run polls, no answer so far had status 200 and nothing of the
\* batch has been parsed; the receipt is parsed only after an answer with
\* status 200, and the answer with status 200 ends the loop at once.  A step
\* of the loop that does not end it changes nothing but the answers kept, so
\* the loop can go on for any number of answers.
C22_PollUntilStatus200 ==
    /\ [](pc = "poll" =>
            /\ \A k \in 1..Len(poll_responses) : poll_responses[k] # 200
            /\ offset \notin receipts)
    /\ []((program = "cli" /\ pc = "receipt") =>
            /\ poll_responses # <<>>
            /\ poll_responses[Len(poll_responses)] = 200)
    /\ [][pc = "poll" =>
            \/ /\ pc' = "poll"
               /\ poll_responses' # <<>>
               /\ poll_responses'[Len(poll_responses')] # 200
               /\ UNCHANGED <<run_vars, exception, file_vars>>
            \/ /\ pc' = "receipt"
               /\ poll_responses'[Len(poll_responses')] = 200
            \/ /\ pc' = "raised"
               /\ exception'.type = "ConnectionError"]_vars

\* the receipt is about to be parsed after an answer without and an answer
\* with status 200
C22_Witness ==
    /\ program = "cli"
    /\ pc = "receipt"
    /\ poll_responses = <<202, 200>>

\* C23: when a receipt is parsed, a sample whose ERROR element quotes alias
\* and accession (it exists already) gets its pair in the accession map and
\* is uploaded like a sample that was created; a sample with any other ERROR
\* element gets nothing in the map and no upload, the run goes on and the
\* created and existing samples of the batch are uploaded.
C23_ReceiptErrors ==
    [][(pc = "receipt" /\ pc' = "upload") =>
          LET doc == documents[Len(documents)]
          IN  \A j \in 1..Len(doc.samples) :
                  /\ root'.status[j] = "exists" =>
                         /\ doc.samples[j] \in accessioned'
                         /\ doc.samples[j] \in Range(alias_to_accession')
                  /\ root'.status[j] = "rejected" =>
                         /\ doc.samples[j] \notin accessioned'
                         /\ doc.samples[j] \notin Range(alias_to_accession')
                  /\ root'.status[j] = "created" =>
                         doc.samples[j] \in Range(alias_to_accession')]_vars

\* C24: when the caller supplied a study accession, no document of the run
\* has a PROJECT_SET; so a document has a PROJECT_SET only in a run whose
\* caller supplied none.
C24_ProjectSetOnlyWithoutAccession ==
    (pc = "start" /\ project_accession) =>
        [](\A k \in 1..Len(documents) : ~documents[k].project_set)

\* two batches were built in a run whose caller supplied the accession
C24_Witness ==
    /\ project_accession
    /\ Len(documents) = 2
    /\ ~documents[1].project_set
    /\ ~root.project

\* C25: in every SAMPLE element the fixed attributes come first, in their
\* fixed order; then every other column of the user that is not covered
\* elsewhere, in the column order of the table, once when its value is not
\* empty and not at all when it is empty; the ENA-CHECKLIST attribute is the
\* last one.
C25_SampleAttributeOrder ==
    \A k \in 1..Len(documents) :
        \A j \in 1..Len(documents[k].samples) :
            LET row == sample_df.rows[documents[k].offset + j]
                tags == [a \in 1..Len(documents[k].attributes[j]) |->
                            documents[k].attributes[j][a].tag]
                fixed == SelectSeq(<<"project name", "collection date">>,
                                   LAMBDA c : c \in Columns(sample_df))
                covered == {"sample_name", "organism", "tax_id", "platform",
                            "genome coverage", "ENA-CHECKLIST"} \cup Range(fixed)
                filled == SelectSeq(sample_df.columns,
                              LAMBDA c : /\ c \notin covered
                                         /\ row[c] \notin {NaN, "", " "})
            IN  tags = fixed \o filled \o <<"ENA-CHECKLIST">>

\* C28: whenever the upload tool is invoked, the STUDY line of the manifest
\* holds an accession, the one the caller supplied or one read from a
\* receipt of the run, and never the text of an absent value.
C28_ManifestNamesStudy ==
    pc = "tool" => manifest.study

\* C30: whenever the upload tool is invoked, the SAMPLE line of the manifest
\* holds an accession the receipt gave for the sample; a SAMPLE element
\* without an accession leads to no manifest and no invocation.
C30_UploadsNeedAccession ==
    pc = "tool" => manifest.sample

\* C29: whenever the submit form of the web page can invoke
\* build_and_submit, the stored submission table has at least one row and
\* passes validation without an error, and every sample_name of it has an
\* entry in the stored fasta_map, also after the table was changed and
\* validated again with a fasta_map in the session.
C29_WebSubmissionGate ==
    (program = "web" /\ pc = "form") =>
        /\ Len(sample_df.rows) > 0
        /\ web_validate_dataframe(sample_df, FIELD_DEFS) = <<>>
        /\ missing(sample_df, fasta_map) = <<>>

----------------------------------------------------------------------------
(* The validation service, src/api/validation.py.  A value is a sequence   *)
(* of characters, so that a full match is computed and not looked up.      *)

\* the characters a value of the model holds at most
MaxValueLen == 3

\* the characters of the model's values, "\n" the line feed
Alphabet == {"y", "e", "s", "n", "o", "\n"}

\* three of the patterns of regex_dict (lines 41, 77, 100)
RX_ANY_TEXT == ".+"
RX_YES_NO == "^(yes|no)$"
RX_ANYTHING == ".*"

\* regex_dict, projected on four of its keys
regex_dict ==
    [key \in {"project_project_name", "sample_samp_name",
              "sample_Microbial_isolate", "host_host_disease_stat"} |->
        CASE key = "sample_Microbial_isolate" -> RX_YES_NO
          [] key = "host_host_disease_stat" -> RX_ANYTHING
          [] OTHER -> RX_ANY_TEXT]

\* re.fullmatch(pattern, value) is not None: "." is any character but the
\* line feed, and the whole value has to be consumed
re_fullmatch_chars(pattern, value) ==
    CASE pattern = RX_ANY_TEXT ->
            Len(value) >= 1 /\ \A i \in 1..Len(value) : value[i] # "\n"
      [] pattern = RX_ANYTHING ->
            \A i \in 1..Len(value) : value[i] # "\n"
      [] pattern = RX_YES_NO ->
            \/ (Len(value) = 3 /\ value[1] = "y" /\ value[2] = "e" /\ value[3] = "s")
            \/ (Len(value) = 2 /\ value[1] = "n" /\ value[2] = "o")
      [] OTHER -> FALSE

\* a ValidationResponse; error None is the empty text
ValidationResponse(valid, metadata, value, error) ==
    [status_code |-> 200,
     body |-> [valid |-> valid, metadata |-> metadata, value |-> value,
               error |-> error]]

\* HTTPException(status_code, detail)
HTTPException(status_code, detail) ==
    [status_code |-> status_code, body |-> [detail |-> detail]]

\* a service that answers an unknown key like a value that does not match
validate_data_any_key(req) ==
    IF req.metadata \in DOMAIN regex_dict
          /\ re_fullmatch_chars(regex_dict[req.metadata], req.value)
    THEN ValidationResponse(TRUE, req.metadata, req.value, "")
    ELSE ValidationResponse(FALSE, req.metadata, req.value,
                            "Value does not match the required format")

\* validate_data, lines 129-156
validate_data(req) ==
    IF req.metadata \notin DOMAIN regex_dict
    THEN HTTPException(400, "Unsupported metadata field")
    ELSE IF re_fullmatch_chars(regex_dict[req.metadata], req.value)
         THEN ValidationResponse(TRUE, req.metadata, req.value, "")
         ELSE ValidationResponse(FALSE, req.metadata, req.value,
                                 "Value does not match the required format")

\* the requests: a known or an unknown key and a value
Requests ==
    [metadata : DOMAIN regex_dict \cup {"sample_unknown", "Microbial_isolate"},
     value : UNION {[1..n -> Alphabet] : n \in 0..MaxValueLen}]

InitApi ==
    /\ csv = SPEC_CSV
    /\ EditorIdle
    /\ ValidateIdle
    /\ SubmitIdle
    /\ ShapeIdle
    /\ request \in Requests
    /\ response = NoResponse

\* POST /validate
PostValidate ==
    /\ response = NoResponse
    /\ response' = validate_data(request)
    /\ UNCHANGED <<editor_vars, validate_vars, submit_vars, shape_vars, request>>

NextApi == PostValidate

SpecApi == InitApi /\ [][NextApi]_vars

\* C15: the service answers an unknown key with status 400 and no validation
\* result; for a known key the answer repeats key and value, valid is true
\* exactly when the whole value is in the language of the key's pattern, and
\* the error message is there exactly when valid is false.
C15_ValidationService ==
    response # NoResponse =>
        LET text == UNION {[1..n -> Alphabet \ {"\n"}] : n \in 0..Len(request.value)}
            matches ==
                CASE request.metadata = "sample_Microbial_isolate" ->
                        request.value \in {<<"y", "e", "s">>, <<"n", "o">>}
                  [] request.metadata = "host_host_disease_stat" ->
                        request.value \in text
                  [] OTHER -> request.value \in text \ {<<>>}
        IN  IF request.metadata \notin
                   {"project_project_name", "sample_samp_name",
                    "sample_Microbial_isolate", "host_host_disease_stat"}
            THEN /\ response.status_code = 400
                 /\ "valid" \notin DOMAIN response.body
            ELSE /\ response.status_code = 200
                 /\ response.body.metadata = request.metadata
                 /\ response.body.value = request.value
                 /\ response.body.valid <=> matches
                 /\ response.body.error # "" <=> ~response.body.valid

\* an unknown key was refused, whatever the value
C15_Witness ==
    /\ request.metadata = "sample_unknown"
    /\ request.value = <<"y", "e", "s">>
    /\ response.status_code = 400

----------------------------------------------------------------------------
(* The shape validators of the editor (create_validate_metadata.py, lines  *)
(* 333-341), called on one value as validate_semantics calls them.         *)

MaxEnvoDigits == 8
MaxTaxDigits == 10

\* the values: identifiers (nothing, the prefix or the prefix without its
\* colon, then up to MaxEnvoDigits digits or letters), taxonomy ids (up to
\* MaxTaxDigits digits or letters) and two six-character ids, each as it is
\* and with white space around it
SemanticValues ==
    LET values ==
            {prefix \o digits :
                prefix \in {<<>>, ENVO_PREFIX, <<"E", "N", "V", "O">>},
                digits \in UNION {[1..n -> {"0", "4", "6"}] :
                                     n \in 0..MaxEnvoDigits}}
            \cup UNION {[1..n -> {"7", "a"}] : n \in 0..MaxTaxDigits}
            \cup {<<"7", "4", "9", "9", "0", "6">>,
                  <<"7", "4", "9", "9", "0", "a">>}
    IN  values \cup {<<" ">> \o v \o <<" ", "\n">> : v \in values}

InitShape ==
    /\ csv = SPEC_CSV
    /\ EditorIdle
    /\ ValidateIdle
    /\ SubmitIdle
    /\ ApiIdle
    /\ semantic_value \in SemanticValues
    /\ semantic_valid = NotCalled

\* ok = fn(v) of validate_semantics, for both validators
CheckShape ==
    /\ ~semantic_valid.called
    /\ semantic_valid' =
           [called |-> TRUE,
            envo |-> validate_envo_like(semantic_value),
            taxid |-> validate_taxid_like(semantic_value)]
    /\ UNCHANGED <<editor_vars, validate_vars, submit_vars, api_vars,
                   semantic_value>>

NextShape == CheckShape

SpecShape == InitShape /\ [][NextShape]_vars

\* the examples of C18
EXAMPLE_ENVO_0000446 == ENVO_PREFIX \o <<"0", "0", "0", "0", "4", "4", "6">>
EXAMPLE_ENVO_0000044 == ENVO_PREFIX \o <<"0", "0", "0", "0", "0", "4", "4">>
EXAMPLE_0000446 == <<"0", "0", "0", "0", "4", "4", "6">>
EXAMPLE_ENVO_0004466 == ENVO_PREFIX \o <<"0", "0", "0", "4", "4", "6", "6">>
EXAMPLE_749906 == <<"7", "4", "9", "9", "0", "6">>
EXAMPLE_74990a == <<"7", "4", "9", "9", "0", "a">>

\* the value without the white space around it is the prefix and n digits,
\* lo <= n <= hi
trimmed_is_digits(prefix, lo, hi) ==
    LET trimmed == strip_characters(semantic_value)
        v == SubSeq(trimmed, Len(prefix) + 1, Len(trimmed))
    IN  /\ Len(trimmed) >= Len(prefix)
        /\ trimmed = prefix \o v
        /\ v \in Seq(Digit)
        /\ Len(v) \in lo..hi

\* the rule of both validators
shape_rule ==
    /\ semantic_valid.envo <=>
           \/ trimmed_is_digits(<<>>, 7, 7)
           \/ trimmed_is_digits(ENVO_PREFIX, 7, 7)
    /\ semantic_valid.taxid <=> trimmed_is_digits(<<>>, 1, 9)

\* the four examples that follow the rule
shape_examples ==
    /\ semantic_value = EXAMPLE_0000446 => semantic_valid.envo
    /\ semantic_value = EXAMPLE_ENVO_0004466 => semantic_valid.envo
    /\ semantic_value = EXAMPLE_749906 => semantic_valid.taxid
    /\ semantic_value = EXAMPLE_74990a => ~semantic_valid.taxid

====
